---- MODULE Spec2Model ----
(***************************************************************************)
(* A model of the head tracker of gazelle-runner                           *)
(* (src/simple_head_tracker.js): the SimpleHeadTracker object, its         *)
(* asynchronous init, the calibration window, the classifier and the       *)
(* temporal stabilizer.                                                    *)
(*                                                                         *)
(* Numbers.  JavaScript numbers are modelled as exact rationals extended   *)
(* with NaN, +Infinity and -Infinity (records [kind, num, den]); rounding  *)
(* of binary floating point and the sign of zero are not modelled.  Two    *)
(* NaN values are the same model value.                                    *)
(***************************************************************************)
EXTENDS Integers, Sequences, FiniteSets, Bags, TLC

(***************************************************************************)
(* Extended rational arithmetic (the arithmetic of JavaScript numbers).    *)
(***************************************************************************)
AbsInt(n) == IF n < 0 THEN -n ELSE n

RECURSIVE GCD(_, _)
GCD(a, b) == IF b = 0 THEN a ELSE GCD(b, a % b)

\* The rational n/d (d > 0) in lowest terms.
Fin(n, d) ==
    LET g == GCD(AbsInt(n), d)
    IN  [kind |-> "fin", num |-> n \div g, den |-> d \div g]

Num(n) == Fin(n, 1)
NaN == [kind |-> "nan", num |-> 0, den |-> 1]
PosInf == [kind |-> "inf", num |-> 1, den |-> 1]
NegInf == [kind |-> "inf", num |-> -1, den |-> 1]

Sign(a) == IF a.num > 0 THEN 1 ELSE IF a.num < 0 THEN -1 ELSE 0
InfOf(s) == IF s > 0 THEN PosInf ELSE NegInf
IsFinite(a) == a.kind = "fin"

Neg(a) ==
    CASE a.kind = "nan" -> NaN
      [] a.kind = "inf" -> InfOf(-a.num)
      [] OTHER          -> Fin(-a.num, a.den)

\* a + b
Add(a, b) ==
    CASE a.kind = "nan" \/ b.kind = "nan"   -> NaN
      [] a.kind = "inf" /\ b.kind = "inf"   -> IF a.num = b.num THEN a ELSE NaN
      [] a.kind = "inf"                     -> a
      [] b.kind = "inf"                     -> b
      [] OTHER -> Fin(a.num * b.den + b.num * a.den, a.den * b.den)

\* a - b
Sub(a, b) == Add(a, Neg(b))

\* a * b
Mul(a, b) ==
    CASE a.kind = "nan" \/ b.kind = "nan"   -> NaN
      [] a.kind = "inf" \/ b.kind = "inf"   ->
            IF Sign(a) * Sign(b) = 0 THEN NaN ELSE InfOf(Sign(a) * Sign(b))
      [] OTHER -> Fin(a.num * b.num, a.den * b.den)

\* a / b, the divisor's zero being +0 (x / 0 is an infinity of x's sign,
\* 0 / 0 is NaN).
Div(a, b) ==
    CASE a.kind = "nan" \/ b.kind = "nan"   -> NaN
      [] a.kind = "inf" /\ b.kind = "inf"   -> NaN
      [] a.kind = "inf"                     ->
            InfOf(a.num * (IF Sign(b) < 0 THEN -1 ELSE 1))
      [] b.kind = "inf"                     -> Num(0)
      [] b.num = 0                          ->
            IF a.num = 0 THEN NaN ELSE InfOf(Sign(a))
      [] OTHER ->
            Fin(a.num * b.den * Sign(b), a.den * AbsInt(b.num))

\* a < b (false as soon as one side is NaN)
Lt(a, b) ==
    CASE a.kind = "nan" \/ b.kind = "nan"   -> FALSE
      [] a.kind = "inf" /\ b.kind = "inf"   -> a.num < b.num
      [] a.kind = "inf"                     -> a.num < 0
      [] b.kind = "inf"                     -> b.num > 0
      [] OTHER -> a.num * b.den < b.num * a.den

\* a > b
Gt(a, b) == Lt(b, a)

\* Math.abs
Abs(a) ==
    CASE a.kind = "nan" -> NaN
      [] a.kind = "inf" -> PosInf
      [] OTHER          -> Fin(AbsInt(a.num), a.den)

\* Math.atan2(dy, dx) in degrees, on the eight principal directions and the
\* zero vector (the only vectors whose angle is a rational number of
\* degrees).
Atan2Deg(dy, dx) ==
    CASE dy = 0 /\ dx >= 0          -> Num(0)
      [] dy = 0 /\ dx < 0           -> Num(180)
      [] dx = 0 /\ dy > 0           -> Num(90)
      [] dx = 0 /\ dy < 0           -> Num(-90)
      [] dx = dy /\ dx > 0          -> Num(45)
      [] dx = -dy /\ dx < 0         -> Num(135)
      [] dx = -dy /\ dx > 0         -> Num(-45)
      [] dx = dy /\ dx < 0          -> Num(-135)

\* An absent object (null) and a present one.
None == << >>
Some(x) == << x >>


(***************************************************************************)
(* Program constants of SimpleHeadTracker.                                 *)
(***************************************************************************)
maxHistoryLength == 3
calibrationFrames == 60
minConfidenceFrames == 2
\* finishCalibration needs more than this many samples for a personal baseline
minCalibrationSamples == 10
\* the margin of the adaptive thresholds around the neutral pitch
thresholdMargin == 5
\* the default thresholds of the constructor and of setDefaultCalibration
defaultUpThreshold == -5
defaultDownThreshold == 5

Poses == {"up", "down", "neutral"}

(***************************************************************************)
(* Bounds of the model.                                                    *)
(***************************************************************************)
\* startCalibration timers (setTimeout) that may be pending at once
MaxTimers == 2
\* frames of one calibration window during which the head is not held in the
\* neutral position (the user is asked to keep the head neutral)
MaxStraySamples == 1

\* One landmark frame: the five landmarks calculateHeadPose reads, in
\* integer units of the normalised image plane.  The nose tip sits at
\* (50, 20) and the chin straight below it.
Landmarks(eyeY, chinY, foreheadY) ==
    [noseTip  |-> [x |-> 50, y |-> 20],
     chin     |-> [x |-> 50, y |-> chinY],
     leftEye  |-> [x |-> 40, y |-> eyeY],
     rightEye |-> [x |-> 60, y |-> eyeY],
     forehead |-> [x |-> 50, y |-> foreheadY]]

\* The face-bearing frames the landmark source may deliver.  With a face
\* height of 42 units the pitch is the eye level minus the nose level:
\* pitches -6 (head tilted up), 0 and 6 (head tilted down).  The last two
\* frames have a face height of zero (chin.y = forehead.y).
NeutralFrame == Landmarks(20, 42, 0)
FaceFrames ==
    { Landmarks(14, 42, 0),
      NeutralFrame,
      Landmarks(26, 42, 0),
      Landmarks(20, 42, 42),
      Landmarks(26, 42, 42) }

\* results.multiFaceLandmarks: absent/empty (None) or one face.
Results == {None} \cup { Some(l) : l \in FaceFrames }

(***************************************************************************)
(* The game's side of the input: InputManager, the legacy GazeTracker's    *)
(* stabilizer and the Gazelle.  Heights and vertical velocities are in     *)
(* tenths of a pixel, so that the gravity 0.7 is the integer 7; positions  *)
(* along x, horizontal velocities and the sides of bounding rectangles are *)
(* in hundred-thousandths of a pixel (Px), which keeps every comparison of *)
(* the decaying velocityX with an obstacle's edge exact; the lane and the  *)
(* animation counters of the Gazelle are not part of the model.            *)
(***************************************************************************)
gravity == 7
jumpPower == -160
bigJumpPower == -220
groundY == 3000
duckY == 3200
gazeMaxHistoryLength == 3

\* The labels of the legacy GazeTracker.
Gazes == {"up", "down", "center"}

\* The key codes the model presses: jump, duck, left and one that is not
\* mapped; at most MaxKeysHeld are down at once.
KeyCodes == {"Space", "ArrowDown", "ArrowLeft", "KeyQ"}

MaxKeysHeld == 2

\* n pixels in hundred-thousandths of a pixel
Px(n) == n * 100000

\* new Gazelle()
NewGazelle ==
    [x |-> Px(100), y |-> groundY, velocityY |-> 0, velocityX |-> 0,
     onGround |-> TRUE, state |-> "running", targetY |-> groundY]

\* Variant of getInput that reports a key only for the vertical directions.
M_getInput_verticalOnly(k) ==
    LET input == [up    |-> \E c \in {"Space", "ArrowUp", "KeyW"} : c \in k,
                  down  |-> \E c \in {"ArrowDown", "KeyS"} : c \in k,
                  left  |-> \E c \in {"ArrowLeft", "KeyA"} : c \in k,
                  right |-> \E c \in {"ArrowRight", "KeyD"} : c \in k]
    IN  IF input.up \/ input.down THEN Some(input) ELSE None

\* InputManager.getInput() with the key codes of k held
getInput(k) ==
    LET input == [up    |-> \E c \in {"Space", "ArrowUp", "KeyW"} : c \in k,
                  down  |-> \E c \in {"ArrowDown", "KeyS"} : c \in k,
                  left  |-> \E c \in {"ArrowLeft", "KeyA"} : c \in k,
                  right |-> \E c \in {"ArrowRight", "KeyD"} : c \in k]
    IN  IF input.up \/ input.down \/ input.left \/ input.right
        THEN Some(input)
        ELSE None

\* Gazelle.jump(isBigJump)
jump(g, isBigJump) ==
    IF g.onGround
    THEN [g EXCEPT !.velocityY = IF isBigJump THEN bigJumpPower ELSE jumpPower,
                   !.velocityX = Px(2),
                   !.onGround = FALSE,
                   !.state = "jumping"]
    ELSE g

\* Variant of duck without the onGround test.
M_duck_noGroundCheck(g) ==
    [g EXCEPT !.state = "ducking", !.targetY = duckY]

\* Gazelle.duck()
duck(g) ==
    IF g.onGround
    THEN [g EXCEPT !.state = "ducking", !.targetY = duckY]
    ELSE g

\* Gazelle.handleInput(input); nearbyLargeRock is what
\* checkForNearbyLargeRock() returns, should it be called.
handleInput(g, input, nearbyLargeRock) ==
    LET standUp(h) == IF h.state = "ducking" /\ h.onGround
                      THEN [h EXCEPT !.state = "running", !.targetY = groundY]
                      ELSE h
        centred    == [g EXCEPT !.x = Px(100)]
    IN  IF input = None
        THEN standUp(centred)
        ELSE LET jumped == IF /\ input[1].up
                              /\ centred.onGround
                              /\ centred.state # "ducking"
                           THEN jump(centred, nearbyLargeRock)
                           ELSE centred
             IN  IF input[1].down THEN duck(jumped) ELSE standUp(jumped)

\* Variant of updatePhysics that leaves the state 'jumping' on landing.
M_updatePhysics_keepsJumping(g) ==
    IF ~g.onGround
    THEN LET velocityY == g.velocityY + gravity
             y         == g.y + velocityY
             x         == g.x + g.velocityX
             velocityX == (g.velocityX * 95) \div 100
         IN  IF y >= groundY
             THEN [g EXCEPT !.x = x,
                            !.y = groundY,
                            !.velocityY = 0,
                            !.velocityX = 0,
                            !.onGround = TRUE]
             ELSE [g EXCEPT !.x = x, !.y = y, !.velocityY = velocityY,
                            !.velocityX = velocityX]
    ELSE [g EXCEPT !.y = groundY,
                   !.x = g.x + ((Px(100) - g.x) * 2) \div 10]

\* Gazelle.updatePhysics()
\* (velocityX *= 0.95 is rounded down to the hundred-thousandth)
updatePhysics(g) ==
    IF ~g.onGround
    THEN LET velocityY == g.velocityY + gravity
             y         == g.y + velocityY
             x         == g.x + g.velocityX
             velocityX == (g.velocityX * 95) \div 100
         IN  IF y >= groundY
             THEN [g EXCEPT !.x = x,
                            !.y = groundY,
                            !.velocityY = 0,
                            !.velocityX = 0,
                            !.onGround = TRUE,
                            !.state = IF g.state = "jumping" THEN "running"
                                      ELSE g.state]
             ELSE [g EXCEPT !.x = x, !.y = y, !.velocityY = velocityY,
                            !.velocityX = velocityX]
    ELSE [g EXCEPT !.y = groundY,
                   !.x = g.x + ((Px(100) - g.x) * 2) \div 10]

\* Gazelle.update(input)
GazelleUpdate(g, input, nearbyLargeRock) ==
    updatePhysics(handleInput(g, input, nearbyLargeRock))

(***************************************************************************)
(* Obstacles, bounding rectangles and the difficulty rule of the game      *)
(* loop.  gameSpeed is in tenths of a pixel per tick (2 is 20, the step    *)
(* 0.2 is 2, the cap 6 is 60); JavaScript's sums of 0.2 differ from these  *)
(* by less than 1e-14 and have the same floor(gameSpeed / 2).              *)
(***************************************************************************)
startSpeed == 20
speedStep == 2
maxSpeed == 60
initialSpawnInterval == 140
spawnIntervalStep == 2
minSpawnInterval == 80
difficultyPeriod == 400
spawnX == 850
offScreenX == -100
rockScoreThreshold == 200

ObstacleTypes == {"rock", "largeRock", "bar"}

\* new Obstacle(type); spawnedIn is a history field: the number of the game
\* in which the spawnObstacle() call that produced the obstacle was made.
NewObstacle(type, spawnedIn) ==
    [type |-> type, x |-> Px(spawnX), spawnedIn |-> spawnedIn]

\* Obstacle.getYPosition()
getYPosition(type) ==
    CASE type = "rock"      -> Px(315)
      [] type = "largeRock" -> Px(280)
      [] type = "bar"       -> Px(250)

\* Obstacle.getWidth()
getWidth(type) ==
    CASE type = "rock"      -> Px(25)
      [] type = "largeRock" -> Px(40)
      [] type = "bar"       -> Px(80)

\* Obstacle.getHeight()
getHeight(type) ==
    CASE type = "rock"      -> Px(30)
      [] type = "largeRock" -> Px(65)
      [] type = "bar"       -> Px(15)

\* Obstacle.update(gameSpeed)
ObstacleUpdate(o, speed) == [o EXCEPT !.x = o.x - speed * (Px(1) \div 10)]

\* Obstacle.getBoundingRect()
ObstacleRect(o) ==
    LET insetX == CASE o.type = "rock" -> 3 [] o.type = "largeRock" -> 5
                    [] o.type = "bar" -> 5
        insetY == CASE o.type = "rock" -> 3 [] o.type = "largeRock" -> 5
                    [] o.type = "bar" -> 2
    IN  [x      |-> o.x + Px(insetX),
         y      |-> getYPosition(o.type) + Px(insetY),
         width  |-> getWidth(o.type) - Px(2 * insetX),
         height |-> getHeight(o.type) - Px(2 * insetY)]

\* Gazelle.getBoundingRect(): 48 * 1.3 - 16 = 46.4 and, ducking,
\* 48 * 1.3 * 0.6 - 8 = 29.44 pixels
GazelleRect(g) ==
    IF g.state = "ducking"
    THEN [x      |-> g.x + Px(8),
          y      |-> g.y * (Px(1) \div 10) + Px(20),
          width  |-> 4640000,
          height |-> 2944000]
    ELSE [x      |-> g.x + Px(8),
          y      |-> g.y * (Px(1) \div 10) + Px(8),
          width  |-> 4640000,
          height |-> 4640000]

\* Variant of rectIntersect that counts rectangles sharing an edge.
M_rectIntersect_touching(rect1, rect2) ==
    /\ rect1.x <= rect2.x + rect2.width
    /\ rect1.x + rect1.width >= rect2.x
    /\ rect1.y <= rect2.y + rect2.height
    /\ rect1.y + rect1.height >= rect2.y

\* GazelleRunner.rectIntersect(rect1, rect2)
rectIntersect(rect1, rect2) ==
    /\ rect1.x < rect2.x + rect2.width
    /\ rect1.x + rect1.width > rect2.x
    /\ rect1.y < rect2.y + rect2.height
    /\ rect1.y + rect1.height > rect2.y

\* GazelleRunner.checkCollisions(): TRUE when it calls gameOver()
checkCollisions(g, obs) ==
    \E i \in 1..Len(obs) : rectIntersect(GazelleRect(g), ObstacleRect(obs[i]))

\* Gazelle.checkForNearbyLargeRock(), called by handleInput once it has set
\* this.x to 100
checkForNearbyLargeRock(obs) ==
    \E i \in 1..Len(obs) :
        /\ obs[i].type = "largeRock"
        /\ obs[i].x > Px(100)
        /\ obs[i].x < Px(100) + Px(200)

\* Variant of raiseDifficulty without the cap of the speed.
M_raiseDifficulty_noCap(speed, interval, timer) ==
    IF timer % difficultyPeriod = 0
    THEN [gameSpeed             |-> speed + speedStep,
          obstacleSpawnInterval |->
              IF interval - spawnIntervalStep > minSpawnInterval
              THEN interval - spawnIntervalStep ELSE minSpawnInterval]
    ELSE [gameSpeed |-> speed, obstacleSpawnInterval |-> interval]

\* The difficulty rule of update(), on the difficultyTimer just incremented:
\* every 400 ticks the speed rises by 0.2 and the spawn interval falls by 2
\* to no less than 80; then the speed is capped at 6.
raiseDifficulty(speed, interval, timer) ==
    LET raised == IF timer % difficultyPeriod = 0
                  THEN [gameSpeed             |-> speed + speedStep,
                        obstacleSpawnInterval |->
                            IF interval - spawnIntervalStep > minSpawnInterval
                            THEN interval - spawnIntervalStep
                            ELSE minSpawnInterval]
                  ELSE [gameSpeed |-> speed, obstacleSpawnInterval |-> interval]
    IN  [raised EXCEPT !.gameSpeed = IF raised.gameSpeed < maxSpeed
                                     THEN raised.gameSpeed ELSE maxSpeed]

\* The obstacles after forEach(update) and the filter x > -100
RECURSIVE MoveObstacles(_, _)
MoveObstacles(obs, speed) ==
    IF obs = << >> THEN << >>
    ELSE LET moved == ObstacleUpdate(Head(obs), speed)
             rest  == MoveObstacles(Tail(obs), speed)
         IN  IF moved.x > Px(offScreenX) THEN << moved >> \o rest ELSE rest

(***************************************************************************)
(* State.                                                                  *)
(***************************************************************************)
VARIABLES
    pc,                 \* position of the click handler / async init():
                        \* "idle" (no tracker constructed), "getUserMedia",
                        \* "mediaPipe" (awaiting camera.start()), "ready",
                        \* "failedCamera", "failedMediaPipe"
    isInitialized,
    isCalibrated,
    camera,             \* this.camera: "null", "starting", "running", "stopped"
    lateFrame,          \* a faceMesh.send() was in flight when the camera stopped
    pendingTimers,      \* pending setTimeout(() => this.startCalibration())
    calibrationSamples, \* the array of headData samples, as a bag (the
                        \* program reads its length and the sum of its pitches)
    neutralPosition,    \* None (null) or Some([pitch |-> p])
    upThreshold,
    downThreshold,
    poseHistory,
    currentHeadPose,
    cycle               \* history variable: the startCalibration() call of the
                        \* current calibration cycle (the one scheduled by
                        \* init() after construction, or by the last
                        \* recalibrate()) is "unscheduled", "pending" or
                        \* "started" (it has run)

VARIABLES
    gameState,          \* GazelleRunner.gameState
    gazelle,            \* the Gazelle object: y, velocityY, onGround, state,
                        \* targetY
    keys,               \* InputManager.keys: the key codes whose entry is true
    gazeIsInitialized,  \* GazeTracker.isInitialized
    gazeHistory,        \* GazeTracker.gazeHistory
    currentGaze,        \* GazeTracker.currentGaze
    framesFed           \* raw commands handed to both stabilizers when they
                        \* are run side by side

VARIABLES
    score,
    highScore,
    storedHighScore,    \* localStorage 'gazelleHighScore': None or Some(n)
    gameSpeed,
    obstacleSpawnTimer,
    obstacleSpawnInterval,
    difficultyTimer,
    obstacles,          \* the obstacle list, in order of insertion
    gameOverTimers,     \* pending 3-second timers of gameOver(), each named
                        \* by the number of the game whose gameOver() set it
    rockTimers,         \* pending delayed rocks of spawnObstacle(), a bag of
                        \* [game, age]: the number of the game that scheduled
                        \* the timer and the ticks it has been pending
    game                \* history variable: the number of startGame() calls

loopVars == << score, highScore, storedHighScore, gameSpeed,
               obstacleSpawnTimer, obstacleSpawnInterval, difficultyTimer,
               obstacles, gameOverTimers, rockTimers, game >>

gameVars == << gameState, gazelle, keys, loopVars >>

gazeVars == << gazeIsInitialized, gazeHistory, currentGaze, framesFed >>

vars == << pc, isInitialized, isCalibrated, camera, lateFrame, pendingTimers,
           calibrationSamples, neutralPosition, upThreshold, downThreshold,
           poseHistory, currentHeadPose, cycle,
           gameState, gazelle, keys,
           gazeIsInitialized, gazeHistory, currentGaze, framesFed,
           score, highScore, storedHighScore, gameSpeed, obstacleSpawnTimer,
           obstacleSpawnInterval, difficultyTimer, obstacles, gameOverTimers,
           rockTimers, game >>

\* parseInt(localStorage.getItem('gazelleHighScore')) || 0
LoadHighScore(stored) == IF stored = None THEN 0 ELSE stored[1]

\* The game-loop fields after new GazelleRunner(), with localStorage
\* holding stored for 'gazelleHighScore' (None on a first visit)
InitRunner(stored) ==
    /\ score = 0
    /\ storedHighScore = stored
    /\ highScore = LoadHighScore(stored)
    /\ gameSpeed = 25
    /\ obstacleSpawnTimer = 0
    /\ obstacleSpawnInterval = initialSpawnInterval
    /\ difficultyTimer = 0
    /\ obstacles = << >>
    /\ gameOverTimers = {}
    /\ rockTimers = EmptyBag
    /\ game = 0

EmptySamples == EmptyBag

\* calibrationSamples.length
Length(samples) == BagCardinality(samples)

\* calibrationSamples.push(headData)
PushSample(samples, headData) == samples (+) SetToBag({headData})

\* calibrationSamples.reduce((sum, sample) => sum + sample.pitch, 0); the
\* copies of one sample are added together, as copies times its pitch.
RECURSIVE SumPitch(_)
SumPitch(samples) ==
    IF BagToSet(samples) = {} THEN Num(0)
    ELSE LET sample == CHOOSE x \in BagToSet(samples) : TRUE
             copies == CopiesIn(sample, samples)
             rest   == [x \in BagToSet(samples) \ {sample} |-> samples[x]]
         IN  Add(SumPitch(rest), Mul(Num(copies), sample.pitch))

\* The calibration fields finishCalibration writes, as they are now.
Calibration ==
    [isCalibrated |-> isCalibrated, neutralPosition |-> neutralPosition,
     upThreshold |-> upThreshold, downThreshold |-> downThreshold]

(***************************************************************************)
(* Pure steps.                                                             *)
(***************************************************************************)
calculateHeadPose(landmarks) ==
    LET noseTip  == landmarks.noseTip
        chin     == landmarks.chin
        leftEye  == landmarks.leftEye
        rightEye == landmarks.rightEye
        forehead == landmarks.forehead
        eyeLevel == Div(Add(Num(leftEye.y), Num(rightEye.y)), Num(2))
        faceHeight == Abs(Sub(Num(chin.y), Num(forehead.y)))
        eyeToNoseRatio == Div(Sub(eyeLevel, Num(noseTip.y)), faceHeight)
        noseChinAngle ==
            Sub(Atan2Deg(chin.y - noseTip.y, chin.x - noseTip.x), Num(90))
        eyeBasedPitch == Mul(eyeToNoseRatio, Num(60))
        angleBasedPitch == noseChinAngle
        pitch == Add(Mul(eyeBasedPitch, Fin(7, 10)),
                     Mul(angleBasedPitch, Fin(3, 10)))
    IN  [pitch |-> pitch, eyeToNose |-> eyeToNoseRatio,
         chinAngle |-> noseChinAngle, confidence |-> Fin(9, 10)]

\* Variant of determineHeadPose with inclusive comparisons (<=, >=).
M_determineHeadPose_inclusive(headData) ==
    IF ~isCalibrated THEN "neutral"
    ELSE LET pitch == headData.pitch
         IN  IF Lt(pitch, upThreshold) \/ pitch = upThreshold THEN "down"
             ELSE IF Gt(pitch, downThreshold) \/ pitch = downThreshold THEN "up"
             ELSE "neutral"

determineHeadPose(headData) ==
    IF ~isCalibrated THEN "neutral"
    ELSE LET pitch == headData.pitch
         IN  IF Lt(pitch, upThreshold) THEN "down"
             ELSE IF Gt(pitch, downThreshold) THEN "up"
             ELSE "neutral"

setDefaultCalibration ==
    [isCalibrated |-> TRUE,
     neutralPosition |-> Some([pitch |-> Num(0)]),
     upThreshold |-> Num(defaultUpThreshold),
     downThreshold |-> Num(defaultDownThreshold)]

\* Variant of finishCalibration that divides the sum by calibrationFrames
\* instead of the number of samples.
M_finishCalibration_fixedDivisor(samples) ==
    IF Length(samples) > minCalibrationSamples
    THEN LET avgPitch == Div(SumPitch(samples), Num(calibrationFrames))
         IN  [isCalibrated |-> TRUE,
              neutralPosition |-> Some([pitch |-> avgPitch]),
              upThreshold |-> Sub(avgPitch, Num(thresholdMargin)),
              downThreshold |-> Add(avgPitch, Num(thresholdMargin))]
    ELSE setDefaultCalibration

\* Variant of finishCalibration that accepts minCalibrationSamples samples
\* (>= instead of >).
M_finishCalibration_atLeast(samples) ==
    IF Length(samples) >= minCalibrationSamples
    THEN LET avgPitch == Div(SumPitch(samples), Num(Length(samples)))
         IN  [isCalibrated |-> TRUE,
              neutralPosition |-> Some([pitch |-> avgPitch]),
              upThreshold |-> Sub(avgPitch, Num(thresholdMargin)),
              downThreshold |-> Add(avgPitch, Num(thresholdMargin))]
    ELSE setDefaultCalibration

\* finishCalibration, on the samples collected so far: the calibration
\* fields it leaves.
finishCalibration(samples) ==
    IF Length(samples) > minCalibrationSamples
    THEN LET avgPitch == Div(SumPitch(samples), Num(Length(samples)))
         IN  [isCalibrated |-> TRUE,
              neutralPosition |-> Some([pitch |-> avgPitch]),
              upThreshold |-> Sub(avgPitch, Num(thresholdMargin)),
              downThreshold |-> Add(avgPitch, Num(thresholdMargin))]
    ELSE setDefaultCalibration

\* Variant of updateCalibrationUI that finishes one sample early.
M_updateCalibrationUI_early(progress, samples) ==
    IF progress >= calibrationFrames - 1
    THEN finishCalibration(samples)
    ELSE Calibration

updateCalibrationUI(progress, samples) ==
    IF progress >= calibrationFrames
    THEN finishCalibration(samples)
    ELSE Calibration


(***************************************************************************)
(* Temporal stabilizer.                                                    *)
(***************************************************************************)
\* Variant of PushPose that removes the newest entry (pop() for shift()).
M_PushPose_evictsNewest(history, newPose) ==
    LET pushed == Append(history, newPose)
    IN  IF Len(pushed) > maxHistoryLength
        THEN SubSeq(pushed, 1, Len(pushed) - 1)
        ELSE pushed

\* poseHistory.push(newPose), then shift() while over maxHistoryLength
PushPose(history, newPose) ==
    LET pushed == Append(history, newPose)
    IN  IF Len(pushed) > maxHistoryLength THEN Tail(pushed) ELSE pushed

\* The index of the entry of pose p in the entries list, 0 when absent.
EntryIndex(entries, p) ==
    IF \E k \in 1..Len(entries) : entries[k][1] = p
    THEN CHOOSE k \in 1..Len(entries) : entries[k][1] = p
    ELSE 0

\* Variant of CountPoses that gives the double weight to the oldest entry
\* (index === 0) instead of the most recent.
RECURSIVE M_CountPoses_oldestHeavy(_, _)
M_CountPoses_oldestHeavy(history, i) ==
    IF i = 0 THEN << >>
    ELSE LET counts == M_CountPoses_oldestHeavy(history, i - 1)
             pose   == history[i]
             weight == IF i = 1 THEN 2 ELSE 1
             k      == EntryIndex(counts, pose)
         IN  IF k = 0
             THEN Append(counts, << pose, weight >>)
             ELSE [counts EXCEPT ![k] = << pose, counts[k][2] + weight >>]

\* Variant of CountPoses that gives the most recent entry the weight 3.
RECURSIVE M_CountPoses_latestTriple(_, _)
M_CountPoses_latestTriple(history, i) ==
    IF i = 0 THEN << >>
    ELSE LET counts == M_CountPoses_latestTriple(history, i - 1)
             pose   == history[i]
             weight == IF i = Len(history) THEN 3 ELSE 1
             k      == EntryIndex(counts, pose)
         IN  IF k = 0
             THEN Append(counts, << pose, weight >>)
             ELSE [counts EXCEPT ![k] = << pose, counts[k][2] + weight >>]

\* The counts object after the forEach has visited history[1..i]:
\* Object.entries order, i.e. << pose, weight >> in order of first insertion.
RECURSIVE CountPoses(_, _)
CountPoses(history, i) ==
    IF i = 0 THEN << >>
    ELSE LET counts == CountPoses(history, i - 1)
             pose   == history[i]
             weight == IF i = Len(history) THEN 2 ELSE 1
             k      == EntryIndex(counts, pose)
         IN  IF k = 0
             THEN Append(counts, << pose, weight >>)
             ELSE [counts EXCEPT ![k] = << pose, counts[k][2] + weight >>]

\* Variant of SortEntries that puts an entry ahead of the entries of equal
\* weight (ties go to the label seen last).
RECURSIVE M_SortEntries_tiesToLast(_)
M_SortEntries_tiesToLast(entries) ==
    IF entries = << >> THEN << >>
    ELSE LET n      == Len(entries)
             sorted == M_SortEntries_tiesToLast(SubSeq(entries, 1, n - 1))
             e      == entries[n]
             ahead  == Cardinality({ k \in 1..Len(sorted) : sorted[k][2] > e[2] })
         IN  SubSeq(sorted, 1, ahead) \o << e >> \o
             SubSeq(sorted, ahead + 1, Len(sorted))

\* Variant of SortEntries that sorts by ascending weight (a[1] - b[1]).
RECURSIVE M_SortEntries_ascending(_)
M_SortEntries_ascending(entries) ==
    IF entries = << >> THEN << >>
    ELSE LET n      == Len(entries)
             sorted == M_SortEntries_ascending(SubSeq(entries, 1, n - 1))
             e      == entries[n]
             ahead  == Cardinality({ k \in 1..Len(sorted) : sorted[k][2] <= e[2] })
         IN  SubSeq(sorted, 1, ahead) \o << e >> \o
             SubSeq(sorted, ahead + 1, Len(sorted))

\* entries.sort((a, b) => b[1] - a[1]): a stable sort by descending weight,
\* as insertion of the entries, in order, each behind those not lighter.
RECURSIVE SortEntries(_)
SortEntries(entries) ==
    IF entries = << >> THEN << >>
    ELSE LET n      == Len(entries)
             sorted == SortEntries(SubSeq(entries, 1, n - 1))
             e      == entries[n]
             ahead  == Cardinality({ k \in 1..Len(sorted) : sorted[k][2] >= e[2] })
         IN  SubSeq(sorted, 1, ahead) \o << e >> \o
             SubSeq(sorted, ahead + 1, Len(sorted))

getSmoothedPose(history) ==
    IF Len(history) = 0 THEN "neutral"
    ELSE LET counts      == CountPoses(history, Len(history))
             sortedPoses == SortEntries(counts)
             topPose     == sortedPoses[1]
         IN  IF topPose[1] # "neutral" /\ topPose[2] >= minConfidenceFrames
             THEN topPose[1]
             ELSE "neutral"

\* Variant of getCurrentInput whose up flag is set for every non-neutral pose.
M_getCurrentInput_upForAny ==
    IF ~isInitialized \/ ~isCalibrated THEN None
    ELSE IF currentHeadPose # "neutral"
         THEN Some([up    |-> currentHeadPose # "neutral",
                    down  |-> currentHeadPose = "down",
                    left  |-> FALSE,
                    right |-> FALSE])
         ELSE None

\* Variant of getCurrentInput without the readiness guard.
M_getCurrentInput_noGuard ==
    IF currentHeadPose # "neutral"
    THEN Some([up    |-> currentHeadPose = "up",
               down  |-> currentHeadPose = "down",
               left  |-> FALSE,
               right |-> FALSE])
    ELSE None

\* The accessor polled by the game loop: None (null) or Some(input).
getCurrentInput ==
    IF ~isInitialized \/ ~isCalibrated THEN None
    ELSE IF currentHeadPose # "neutral"
         THEN Some([up    |-> currentHeadPose = "up",
                    down  |-> currentHeadPose = "down",
                    left  |-> FALSE,
                    right |-> FALSE])
         ELSE None

(***************************************************************************)
(* Operations.                                                             *)
(***************************************************************************)
InitTracker ==
    /\ pc = "idle"
    /\ isInitialized = FALSE
    /\ isCalibrated = FALSE
    /\ camera = "null"
    /\ lateFrame = FALSE
    /\ pendingTimers = 0
    /\ calibrationSamples = EmptySamples
    /\ neutralPosition = None
    /\ upThreshold = Num(defaultUpThreshold)
    /\ downThreshold = Num(defaultDownThreshold)
    /\ poseHistory = << >>
    /\ currentHeadPose = "neutral"
    /\ cycle = "unscheduled"

\* The game's fields outside the loop's: state, Gazelle, keys, GazeTracker.
InitInput ==
    /\ gameState = "menu"
    /\ gazelle = NewGazelle
    /\ keys = {}
    /\ gazeIsInitialized = FALSE
    /\ gazeHistory = << >>
    /\ currentGaze = "center"
    /\ framesFed = 0

Init ==
    /\ InitTracker
    /\ InitInput
    /\ InitRunner(None)

\* Writes the four calibration fields from a record of them.
SetCalibration(c) ==
    /\ isCalibrated' = c.isCalibrated
    /\ neutralPosition' = c.neutralPosition
    /\ upThreshold' = c.upThreshold
    /\ downThreshold' = c.downThreshold

\* calibrateButton click with no tracker yet: new SimpleHeadTracker(), whose
\* constructor runs init() up to its first await (getUserMedia).
ClickEnable ==
    /\ pc = "idle"
    /\ pc' = "getUserMedia"
    /\ UNCHANGED << cycle, isInitialized, isCalibrated, camera, lateFrame,
                    pendingTimers, calibrationSamples, neutralPosition,
                    upThreshold, downThreshold, poseHistory, currentHeadPose >>
    /\ UNCHANGED << gameVars, gazeVars >>

\* getUserMedia resolved: init() registers the button listeners and runs
\* initializeMediaPipe up to await this.camera.start().
GetUserMediaOk ==
    /\ pc = "getUserMedia"
    /\ pc' = "mediaPipe"
    /\ camera' = "starting"
    /\ UNCHANGED << cycle, isInitialized, isCalibrated, lateFrame, pendingTimers,
                    calibrationSamples, neutralPosition, upThreshold,
                    downThreshold, poseHistory, currentHeadPose >>
    /\ UNCHANGED << gameVars, gazeVars >>

\* Variant of GetUserMediaFail that sets isInitialized on the way out of
\* init(), as a finally block would.
M_GetUserMediaFail_initialized ==
    /\ pc = "getUserMedia"
    /\ pc' = "failedCamera"
    /\ isInitialized' = TRUE
    /\ UNCHANGED << cycle, isCalibrated, camera, lateFrame,
                    pendingTimers, calibrationSamples, neutralPosition,
                    upThreshold, downThreshold, poseHistory, currentHeadPose >>
    /\ UNCHANGED << gameVars, gazeVars >>

\* getUserMedia rejected: the catch of init().
GetUserMediaFail ==
    /\ pc = "getUserMedia"
    /\ pc' = "failedCamera"
    /\ UNCHANGED << cycle, isInitialized, isCalibrated, camera, lateFrame,
                    pendingTimers, calibrationSamples, neutralPosition,
                    upThreshold, downThreshold, poseHistory, currentHeadPose >>
    /\ UNCHANGED << gameVars, gazeVars >>

\* camera.start() resolved: init() schedules startCalibration and sets
\* isInitialized.  A camera that stopHeadTracking stopped while it was
\* starting may or may not deliver frames afterwards.
MediaPipeOk ==
    /\ pc = "mediaPipe"
    /\ pc' = "ready"
    /\ camera' \in (IF camera = "starting" THEN {"running"}
                    ELSE {"running", "stopped"})
    /\ pendingTimers' = pendingTimers + 1
    /\ cycle' = (IF cycle = "unscheduled" THEN "pending" ELSE cycle)
    /\ isInitialized' = TRUE
    /\ UNCHANGED << isCalibrated, lateFrame, calibrationSamples,
                    neutralPosition, upThreshold, downThreshold, poseHistory,
                    currentHeadPose >>
    /\ UNCHANGED << gameVars, gazeVars >>

\* initializeMediaPipe threw or camera.start() rejected: the catch of init().
MediaPipeFail ==
    /\ pc = "mediaPipe"
    /\ pc' = "failedMediaPipe"
    /\ camera' = "stopped"
    /\ UNCHANGED << cycle, isInitialized, isCalibrated, lateFrame, pendingTimers,
                    calibrationSamples, neutralPosition, upThreshold,
                    downThreshold, poseHistory, currentHeadPose >>
    /\ UNCHANGED << gameVars, gazeVars >>

\* Variant of startCalibration that also clears isCalibrated.
M_startCalibration_clearsCalibrated ==
    /\ pendingTimers > 0
    /\ pendingTimers' = pendingTimers - 1
    /\ \/ cycle = "pending" /\ cycle' = "started"
       \/ /\ pendingTimers > (IF cycle = "pending" THEN 1 ELSE 0)
          /\ cycle' = cycle
    /\ calibrationSamples' = EmptySamples
    /\ isCalibrated' = FALSE
    /\ UNCHANGED << pc, isInitialized, camera, lateFrame, poseHistory,
                    currentHeadPose, neutralPosition, upThreshold,
                    downThreshold >>
    /\ UNCHANGED << gameVars, gazeVars >>

\* A pending timer fires: startCalibration(), with its updateCalibrationUI(0).
startCalibration ==
    /\ pendingTimers > 0
    /\ pendingTimers' = pendingTimers - 1
    /\ \/ cycle = "pending" /\ cycle' = "started"
       \/ /\ pendingTimers > (IF cycle = "pending" THEN 1 ELSE 0)
          /\ cycle' = cycle
    /\ calibrationSamples' = EmptySamples
    /\ SetCalibration(updateCalibrationUI(0, EmptySamples))
    /\ UNCHANGED << pc, isInitialized, camera, lateFrame, poseHistory,
                    currentHeadPose >>
    /\ UNCHANGED << gameVars, gazeVars >>

\* updateHeadPose(newPose, headData)
updateHeadPose(newPose) ==
    /\ poseHistory' = PushPose(poseHistory, newPose)
    /\ currentHeadPose' = getSmoothedPose(poseHistory')

\* Variant of processResults that feeds 'neutral' to the stabilizer when a
\* calibrated tracker sees no face.
M_processResults_neutralOnNoFace(results) ==
    IF results = None
    THEN IF isCalibrated
         THEN /\ updateHeadPose("neutral")
              /\ UNCHANGED << isCalibrated, calibrationSamples,
                              neutralPosition, upThreshold, downThreshold >>
         ELSE UNCHANGED << isCalibrated, calibrationSamples, neutralPosition,
                           upThreshold, downThreshold, poseHistory,
                           currentHeadPose >>
    ELSE LET landmarks == results[1]
             headData  == calculateHeadPose(landmarks)
         IN  IF ~isCalibrated
             THEN /\ IF Length(calibrationSamples) < calibrationFrames
                     THEN /\ calibrationSamples' =
                                 PushSample(calibrationSamples, headData)
                          /\ SetCalibration(
                                 updateCalibrationUI(Length(calibrationSamples'),
                                                     calibrationSamples'))
                     ELSE UNCHANGED << isCalibrated, calibrationSamples,
                                       neutralPosition, upThreshold,
                                       downThreshold >>
                  /\ UNCHANGED << poseHistory, currentHeadPose >>
             ELSE /\ updateHeadPose(determineHeadPose(headData))
                  /\ UNCHANGED << isCalibrated, calibrationSamples,
                                  neutralPosition, upThreshold, downThreshold >>

\* processResults(results), the faceMesh.onResults callback.
processResults(results) ==
    IF results = None
    THEN UNCHANGED << isCalibrated, calibrationSamples, neutralPosition,
                      upThreshold, downThreshold, poseHistory, currentHeadPose >>
    ELSE LET landmarks == results[1]
             headData  == calculateHeadPose(landmarks)
         IN  IF ~isCalibrated
             THEN /\ IF Length(calibrationSamples) < calibrationFrames
                     THEN /\ calibrationSamples' =
                                 PushSample(calibrationSamples, headData)
                          /\ SetCalibration(
                                 updateCalibrationUI(Length(calibrationSamples'),
                                                     calibrationSamples'))
                     ELSE UNCHANGED << isCalibrated, calibrationSamples,
                                       neutralPosition, upThreshold,
                                       downThreshold >>
                  /\ UNCHANGED << poseHistory, currentHeadPose >>
             ELSE /\ updateHeadPose(determineHeadPose(headData))
                  /\ UNCHANGED << isCalibrated, calibrationSamples,
                                  neutralPosition, upThreshold, downThreshold >>

\* The frames the landmark source may deliver in the current state: while a
\* calibration window is filling, at most MaxStraySamples of its samples are
\* not the neutral frame.
StraySamples(samples) ==
    Length(samples) - CopiesIn(calculateHeadPose(NeutralFrame), samples)

Deliverable ==
    IF isCalibrated \/ StraySamples(calibrationSamples) < MaxStraySamples
    THEN Results
    ELSE {None, Some(NeutralFrame)}

\* The running camera delivers a frame's results.
Frame ==
    /\ camera = "running"
    /\ \E results \in Deliverable : processResults(results)
    /\ UNCHANGED << cycle, pc, isInitialized, camera, lateFrame, pendingTimers >>
    /\ UNCHANGED << gameVars, gazeVars >>

\* The results of the send that was in flight when the camera was stopped.
LateFrame ==
    /\ lateFrame
    /\ camera # "running"
    /\ lateFrame' = FALSE
    /\ \E results \in Deliverable : processResults(results)
    /\ UNCHANGED << cycle, pc, isInitialized, camera, pendingTimers >>
    /\ UNCHANGED << gameVars, gazeVars >>

\* Variant of recalibrate that keeps currentHeadPose and poseHistory.
M_recalibrate_keepsPose ==
    /\ pc # "idle"
    /\ pendingTimers < MaxTimers
    /\ isCalibrated' = FALSE
    /\ calibrationSamples' = EmptySamples
    /\ pendingTimers' = pendingTimers + 1
    /\ cycle' = "pending"
    /\ UNCHANGED << pc, isInitialized, camera, lateFrame, neutralPosition,
                    upThreshold, downThreshold, poseHistory, currentHeadPose >>
    /\ UNCHANGED << gameVars, gazeVars >>

\* Variant of recalibrate that empties poseHistory but leaves
\* currentHeadPose.
M_recalibrate_keepsCommand ==
    /\ pc # "idle"
    /\ pendingTimers < MaxTimers
    /\ isCalibrated' = FALSE
    /\ calibrationSamples' = EmptySamples
    /\ poseHistory' = << >>
    /\ pendingTimers' = pendingTimers + 1
    /\ cycle' = "pending"
    /\ UNCHANGED << pc, isInitialized, camera, lateFrame, neutralPosition,
                    upThreshold, downThreshold, currentHeadPose >>
    /\ UNCHANGED << gameVars, gazeVars >>

\* calibrateButton click with a tracker: recalibrate().
recalibrate ==
    /\ pc # "idle"
    /\ pendingTimers < MaxTimers
    /\ isCalibrated' = FALSE
    /\ calibrationSamples' = EmptySamples
    /\ currentHeadPose' = "neutral"
    /\ poseHistory' = << >>
    /\ pendingTimers' = pendingTimers + 1
    /\ cycle' = "pending"
    /\ UNCHANGED << pc, isInitialized, camera, lateFrame, neutralPosition,
                    upThreshold, downThreshold >>
    /\ UNCHANGED << gameVars, gazeVars >>

\* stopTracking click (the listener init() registers after getUserMedia).
stopHeadTracking ==
    /\ pc \in {"mediaPipe", "ready", "failedMediaPipe"}
    /\ isInitialized' = FALSE
    /\ isCalibrated' = FALSE
    /\ camera' = "stopped"
    /\ lateFrame' = (lateFrame \/ camera = "running")
    /\ UNCHANGED << cycle, pc, pendingTimers, calibrationSamples, neutralPosition,
                    upThreshold, downThreshold, poseHistory, currentHeadPose >>
    /\ UNCHANGED << gameVars, gazeVars >>

Next ==
    \/ ClickEnable
    \/ GetUserMediaOk
    \/ GetUserMediaFail
    \/ MediaPipeOk
    \/ MediaPipeFail
    \/ startCalibration
    \/ Frame
    \/ LateFrame
    \/ recalibrate
    \/ stopHeadTracking

Spec == Init /\ [][Next]_vars


\* The tracker with the scheduling the event loop guarantees: a delayed
\* startCalibration() call (setTimeout) does run. Nothing obliges the landmark
\* source to deliver a frame, nor the user to click.
SpecDegraded ==
    /\ Spec
    /\ WF_vars(startCalibration)

\* A processResults call whose results hold a face.
FaceFrame ==
    /\ camera = "running"
    /\ \E results \in Deliverable \ {None} : processResults(results)
    /\ UNCHANGED << cycle, pc, isInitialized, camera, lateFrame, pendingTimers >>
    /\ UNCHANGED << gameVars, gazeVars >>

\* A face-bearing frame would be sampled: FaceFrame is enabled and changes
\* the calibration window.
CanSample ==
    /\ camera = "running"
    /\ ~isCalibrated
    /\ Length(calibrationSamples) < calibrationFrames

\* The tracker in front of a sensor that works: the delayed
\* startCalibration() calls run, and face-bearing frames keep arriving while
\* the tracker can sample them (weak fairness of FaceFrame, with its
\* enabling condition written out as CanSample).
SpecFair ==
    /\ Spec
    /\ WF_vars(startCalibration)
    /\ ([]<>(~CanSample) \/ []<><<FaceFrame>>_vars)

(***************************************************************************)
(* finishCalibration as a function of the collected samples: a second      *)
(* specification that starts from any window of up to calibrationFrames    *)
(* samples and applies it.                                                 *)
(***************************************************************************)
\* stray (non-neutral) samples of such a window
MaxFinishStray == 2

\* The window holding k neutral samples and m copies of the sample stray.
SamplesOf(k, m, stray) ==
    LET neutral == calculateHeadPose(NeutralFrame)
        elems   == (IF k > 0 THEN {neutral} ELSE {}) \cup
                   (IF m > 0 THEN {stray} ELSE {})
    IN  [x \in elems |-> IF x = neutral THEN k ELSE m]

FinishWindows ==
    { w \in { SamplesOf(k, m, calculateHeadPose(l)) :
                k \in 0..calibrationFrames, m \in 0..MaxFinishStray,
                l \in FaceFrames \ {NeutralFrame} } :
        Length(w) <= calibrationFrames }

InitFinish ==
    /\ pc = "ready"
    /\ isInitialized = TRUE
    /\ isCalibrated = FALSE
    /\ camera = "running"
    /\ lateFrame = FALSE
    /\ pendingTimers = 0
    /\ calibrationSamples \in FinishWindows
    /\ neutralPosition = None
    /\ upThreshold = Num(defaultUpThreshold)
    /\ downThreshold = Num(defaultDownThreshold)
    /\ poseHistory = << >>
    /\ currentHeadPose = "neutral"
    /\ cycle = "started"
    /\ gameState = "menu"
    /\ gazelle = NewGazelle
    /\ keys = {}
    /\ gazeIsInitialized = FALSE
    /\ gazeHistory = << >>
    /\ currentGaze = "center"
    /\ framesFed = 0
    /\ InitRunner(None)

RunFinishCalibration ==
    /\ ~isCalibrated
    /\ SetCalibration(finishCalibration(calibrationSamples))
    /\ UNCHANGED << cycle, pc, isInitialized, camera, lateFrame, pendingTimers,
                    calibrationSamples, poseHistory, currentHeadPose >>
    /\ UNCHANGED << gameVars, gazeVars >>

NextFinish == RunFinishCalibration

SpecFinish == InitFinish /\ [][NextFinish]_vars


(***************************************************************************)
(* The game loop: a third specification, in which a tracker that is either *)
(* not constructed or active feeds the game, keys go down and up, and      *)
(* GazelleRunner.update() hands the selected input to the Gazelle.         *)
(***************************************************************************)
trackerVars == << pc, isInitialized, isCalibrated, camera, lateFrame,
                  pendingTimers, calibrationSamples, neutralPosition,
                  upThreshold, downThreshold, poseHistory, currentHeadPose,
                  cycle >>

\* Variant of getSmoothedGaze that returns the winner only from weight 3.
M_getSmoothedGaze_needsThree(history) ==
    IF Len(history) = 0 THEN "center"
    ELSE LET counts      == CountPoses(history, Len(history))
             sortedGazes == SortEntries(counts)
             topGaze     == sortedGazes[1]
         IN  IF topGaze[2] >= 3
             THEN topGaze[1]
             ELSE "center"

\* GazeTracker.getSmoothedGaze() on the history given
getSmoothedGaze(history) ==
    IF Len(history) = 0 THEN "center"
    ELSE LET counts      == CountPoses(history, Len(history))
             sortedGazes == SortEntries(counts)
             topGaze     == sortedGazes[1]
         IN  IF topGaze[2] >= 2 \/ history[Len(history)] = topGaze[1]
             THEN topGaze[1]
             ELSE "center"

\* gazeHistory.push(headMovement), then shift() when over maxHistoryLength
PushGaze(history, headMovement) ==
    LET pushed == Append(history, headMovement)
    IN  IF Len(pushed) > gazeMaxHistoryLength THEN Tail(pushed) ELSE pushed

\* GazeTracker.getCurrentGaze()
getCurrentGaze ==
    IF ~gazeIsInitialized THEN None
    ELSE LET headInput == [up    |-> currentGaze = "up",
                           down  |-> currentGaze = "down",
                           left  |-> FALSE,
                           right |-> FALSE]
         IN  IF headInput.up \/ headInput.down THEN Some(headInput) ELSE None

\* The input of GazelleRunner.update(): inputManager.getInput() ||
\* (window.simpleHeadTracker && ...getCurrentInput()) || getCurrentGaze()
GameInput ==
    LET keyboard == getInput(keys)
        head     == IF pc # "idle" THEN getCurrentInput ELSE None
    IN  IF keyboard # None THEN keyboard
        ELSE IF head # None THEN head
        ELSE getCurrentGaze

\* A tracker that has completed its calibration on neutral frames.
InitActiveTracker ==
    LET samples == SamplesOf(calibrationFrames, 0, calculateHeadPose(NeutralFrame))
        c       == finishCalibration(samples)
    IN  /\ pc = "ready"
        /\ isInitialized = TRUE
        /\ isCalibrated = c.isCalibrated
        /\ camera = "running"
        /\ lateFrame = FALSE
        /\ pendingTimers = 0
        /\ calibrationSamples = samples
        /\ neutralPosition = c.neutralPosition
        /\ upThreshold = c.upThreshold
        /\ downThreshold = c.downThreshold
        /\ poseHistory = << >>
        /\ currentHeadPose = "neutral"
        /\ cycle = "started"

InitGame ==
    /\ Init \/ InitActiveTracker
    /\ gameState = "menu"
    /\ gazelle = NewGazelle
    /\ keys = {}
    /\ gazeIsInitialized = FALSE
    /\ gazeHistory = << >>
    /\ currentGaze = "center"
    /\ framesFed = 0
    /\ InitRunner(None)

\* The number of games started, and the number of ticks of the game loop
\* that run while a delayed rock is pending (its delay is 300 to 500 ms; the
\* ticks are the display's frames).
MaxGames == 2

MaxRockDelay == 1

\* The pending delayed rocks one tick later.
AgeTimers(timers) ==
    LET aged == { [t EXCEPT !.age = t.age + 1] : t \in BagToSet(timers) }
    IN  [t \in aged |-> timers[[t EXCEPT !.age = t.age - 1]]]

\* No pending delayed rock has waited MaxRockDelay ticks.
RocksInTime == \A t \in BagToSet(rockTimers) : t.age < MaxRockDelay

\* startButton click: startGame()
startGame ==
    /\ game < MaxGames
    /\ game' = game + 1
    /\ gameState' = "playing"
    /\ score' = 0
    /\ gameSpeed' = startSpeed
    /\ obstacles' = << >>
    /\ gazelle' = NewGazelle
    /\ obstacleSpawnTimer' = 0
    /\ difficultyTimer' = 0
    /\ UNCHANGED << highScore, storedHighScore, obstacleSpawnInterval,
                    gameOverTimers, rockTimers, keys, trackerVars, gazeVars >>

\* The body of update() while playing, lines 76-117: the input is selected
\* and handed to the Gazelle; the spawn timer counts and, at the interval,
\* spawnObstacle() appends an obstacle of a random type and, with score >
\* 200 and Math.random() < 0.15, schedules a delayed rock; the obstacles
\* move and those off screen are dropped; checkCollisions() calls
\* gameOver(), which sets the state, raises and stores the high score and
\* schedules its 3-second timer; then score, difficultyTimer, gameSpeed and
\* obstacleSpawnInterval are updated.
RunTick ==
    LET g      == GazelleUpdate(gazelle, GameInput,
                                checkForNearbyLargeRock(obstacles))
        timer  == obstacleSpawnTimer + 1
        spawns == timer >= obstacleSpawnInterval
        raised == raiseDifficulty(gameSpeed, obstacleSpawnInterval,
                                  difficultyTimer + 1)
    IN  \E type \in IF spawns THEN ObstacleTypes ELSE {"rock"},
           followUp \in IF spawns /\ score > rockScoreThreshold
                        THEN BOOLEAN ELSE {FALSE} :
            LET spawned  == IF spawns
                            THEN Append(obstacles, NewObstacle(type, game))
                            ELSE obstacles
                moved    == MoveObstacles(spawned, gameSpeed)
                collided == checkCollisions(g, moved)
                beaten   == collided /\ score > highScore
            IN  /\ gazelle' = g
                /\ obstacleSpawnTimer' = IF spawns THEN 0 ELSE timer
                /\ rockTimers' =
                       IF followUp
                       THEN AgeTimers(rockTimers) (+)
                                SetToBag({[game |-> game, age |-> 0]})
                       ELSE AgeTimers(rockTimers)
                /\ obstacles' = moved
                /\ gameState' = IF collided THEN "gameOver" ELSE gameState
                /\ highScore' = IF beaten THEN score ELSE highScore
                /\ storedHighScore' = IF beaten THEN Some(score)
                                      ELSE storedHighScore
                /\ gameOverTimers' = IF collided
                                     THEN gameOverTimers \cup {game}
                                     ELSE gameOverTimers
                /\ score' = score + gameSpeed \div 20
                /\ difficultyTimer' = difficultyTimer + 1
                /\ gameSpeed' = raised.gameSpeed
                /\ obstacleSpawnInterval' = raised.obstacleSpawnInterval

\* Variant of update that consumes the head command it has read.
M_update_consumesCommand ==
    IF gameState # "playing"
    THEN UNCHANGED vars
    ELSE /\ RunTick
         /\ currentHeadPose' = "neutral"
         /\ UNCHANGED << keys, game, gazeVars, pc, isInitialized,
                         isCalibrated, camera, lateFrame, pendingTimers,
                         calibrationSamples, neutralPosition, upThreshold,
                         downThreshold, poseHistory, cycle >>

\* GazelleRunner.update(), one tick of the game loop
update ==
    IF gameState # "playing"
    THEN UNCHANGED vars
    ELSE /\ RunTick
         /\ UNCHANGED << keys, game, trackerVars, gazeVars >>

\* The callback of gameOver()'s setTimeout(..., 3000)
gameOverTimer ==
    \E g \in gameOverTimers :
        /\ gameOverTimers' = gameOverTimers \ {g}
        /\ gameState' = IF gameState = "gameOver" THEN "menu" ELSE gameState
        /\ UNCHANGED << gazelle, keys, score, highScore, storedHighScore,
                        gameSpeed, obstacleSpawnTimer, obstacleSpawnInterval,
                        difficultyTimer, obstacles, rockTimers, game,
                        trackerVars, gazeVars >>

\* The callback of spawnObstacle()'s setTimeout: the delayed small rock
rockTimer ==
    \E t \in BagToSet(rockTimers) :
        /\ rockTimers' = rockTimers (-) SetToBag({t})
        /\ obstacles' = IF gameState = "playing"
                        THEN Append(obstacles, NewObstacle("rock", t.game))
                        ELSE obstacles
        /\ UNCHANGED << gameState, gazelle, keys, score, highScore,
                        storedHighScore, gameSpeed, obstacleSpawnTimer,
                        obstacleSpawnInterval, difficultyTimer,
                        gameOverTimers, game, trackerVars, gazeVars >>

\* InputManager.handleKeyDown(e)
handleKeyDown ==
    /\ Cardinality(keys) < MaxKeysHeld
    /\ \E code \in KeyCodes : keys' = keys \cup {code}
    /\ UNCHANGED << gameState, gazelle, loopVars, trackerVars, gazeVars >>

\* InputManager.handleKeyUp(e)
handleKeyUp ==
    /\ \E code \in KeyCodes : keys' = keys \ {code}
    /\ UNCHANGED << gameState, gazelle, loopVars, trackerVars, gazeVars >>

\* The ticks of one game that the game-loop specification follows.
MaxGameTicks == 4

NextGame ==
    \/ startGame
    \/ difficultyTimer < MaxGameTicks /\ update
    \/ handleKeyDown
    \/ handleKeyUp
    \/ Frame

SpecGame == InitGame /\ [][NextGame]_vars

(***************************************************************************)
(* A run of the game without input: a fifth specification, which follows   *)
(* each game for MaxPlayTicks ticks, far enough for the first difficulty   *)
(* step and for the first rock to reach the gazelle, with the delayed      *)
(* rocks and the game-over timers firing at any time.                      *)
(***************************************************************************)
MaxPlayTicks == 490

InitPlay ==
    /\ InitTracker
    /\ InitInput
    /\ InitRunner(None)

NextPlay ==
    \/ startGame
    \/ difficultyTimer < MaxPlayTicks /\ RocksInTime /\ update
    \/ gameOverTimer
    \/ rockTimer

SpecPlay == InitPlay /\ [][NextPlay]_vars

\* The same run with at most MaxRounds clicks on Start.
MaxRounds == 1

NextRounds ==
    \/ game < MaxRounds /\ startGame
    \/ difficultyTimer < MaxPlayTicks /\ RocksInTime /\ update
    \/ gameOverTimer
    \/ rockTimer

SpecRounds == InitPlay /\ [][NextRounds]_vars

(***************************************************************************)
(* The Gazelle on its own: a sixth specification, in which update(input)   *)
(* is called with any input and any answer of checkForNearbyLargeRock(),   *)
(* and is called again and again (the game loop's requestAnimationFrame).  *)
(***************************************************************************)
Inputs ==
    {None} \cup { Some([up |-> u, down |-> d, left |-> FALSE, right |-> FALSE]) :
                      u \in BOOLEAN, d \in BOOLEAN }

GazelleStep ==
    /\ \E input \in Inputs, nearbyLargeRock \in BOOLEAN :
           gazelle' = GazelleUpdate(gazelle, input, nearbyLargeRock)
    /\ UNCHANGED << gameState, keys, loopVars, trackerVars, gazeVars >>

NextFlight == GazelleStep

SpecFlight == Init /\ [][NextFlight]_vars /\ WF_vars(GazelleStep)

(***************************************************************************)
(* The two stabilizers side by side: a fourth specification, in which the  *)
(* same raw command is pushed into poseHistory and, with 'neutral' named   *)
(* 'center', into gazeHistory.                                             *)
(***************************************************************************)
\* raw commands fed in one run
MaxRawCommands == 6

AsGaze(pose) == IF pose = "neutral" THEN "center" ELSE pose

InitSideBySide ==
    /\ InitActiveTracker
    /\ gameState = "menu"
    /\ gazelle = NewGazelle
    /\ keys = {}
    /\ gazeIsInitialized = TRUE
    /\ gazeHistory = << >>
    /\ currentGaze = "center"
    /\ framesFed = 0
    /\ InitRunner(None)

\* updateHeadPose(newPose) in the one tracker, the stabilizer half of
\* onResults (push, shift, getSmoothedGaze) in the other.
SideBySideFrame ==
    /\ framesFed < MaxRawCommands
    /\ framesFed' = framesFed + 1
    /\ \E newPose \in Poses :
           /\ updateHeadPose(newPose)
           /\ gazeHistory' = PushGaze(gazeHistory, AsGaze(newPose))
           /\ currentGaze' = getSmoothedGaze(gazeHistory')
    /\ UNCHANGED << pc, isInitialized, isCalibrated, camera, lateFrame,
                    pendingTimers, calibrationSamples, neutralPosition,
                    upThreshold, downThreshold, cycle, gameVars,
                    gazeIsInitialized >>

NextSideBySide == SideBySideFrame

SpecSideBySide == InitSideBySide /\ [][NextSideBySide]_vars


(***************************************************************************)
(* Properties.                                                             *)
(***************************************************************************)
\* a <= b
Le(a, b) == Lt(a, b) \/ (a = b /\ a.kind # "nan")

Range(seq) == { seq[i] : i \in 1..Len(seq) }

\* All windows of raw commands of length lo..hi.
Windows(lo, hi) == UNION { [1..n -> Poses] : n \in lo..hi }

\* The number of entries of window h that equal pose p.
Occurrences(h, p) == Cardinality({ i \in 1..Len(h) : h[i] = p })

\* The pitches the classifier is probed with: the thresholds, their
\* neighbours, the neutral pitch and the ends of its band, whole degrees and
\* the non-finite values.
MaxProbePitch == 12

ProbePitches ==
    { upThreshold, downThreshold,
      Sub(upThreshold, Num(1)), Add(upThreshold, Num(1)),
      Sub(downThreshold, Num(1)), Add(downThreshold, Num(1)),
      NaN, PosInf, NegInf }
    \cup { Num(k) : k \in -MaxProbePitch..MaxProbePitch }
    \cup { calculateHeadPose(l).pitch : l \in FaceFrames }
    \cup (IF neutralPosition = None THEN {}
          ELSE { neutralPosition[1].pitch,
                 Sub(neutralPosition[1].pitch, Num(5)),
                 Add(neutralPosition[1].pitch, Num(5)) })

\* C1: for a calibrated tracker and every pitch, determineHeadPose returns
\* 'down' exactly when pitch < upThreshold, 'up' exactly when
\* pitch > downThreshold and 'neutral' otherwise; a pitch equal to either
\* threshold, and every pitch of the closed band
\* [neutralPitch - 5, neutralPitch + 5], classifies as 'neutral'.
C1_Classification ==
    isCalibrated =>
        \A p \in ProbePitches :
            LET r == determineHeadPose([pitch |-> p])
            IN  /\ r \in Poses
                /\ (r = "down") <=> Lt(p, upThreshold)
                /\ (r = "up") <=> Gt(p, downThreshold)
                /\ (p = upThreshold \/ p = downThreshold) => r = "neutral"
                /\ (/\ neutralPosition # None
                    /\ Le(Sub(neutralPosition[1].pitch, Num(5)), p)
                    /\ Le(p, Add(neutralPosition[1].pitch, Num(5))))
                   => r = "neutral"

\* A calibrated tracker with finite thresholds whose window holds a frame
\* classified 'down', one classified 'neutral' and one classified 'up'.
C1_Witness ==
    /\ isCalibrated
    /\ IsFinite(upThreshold)
    /\ Range(poseHistory) = Poses

\* C2: getCurrentInput returns null or an object with exactly one of up and
\* down true and left and right false; it returns null whenever
\* currentHeadPose is 'neutral'.
C2_InputShape ==
    LET r == getCurrentInput
    IN  /\ \/ r = None
           \/ /\ r[1].up # r[1].down
              /\ ~r[1].left
              /\ ~r[1].right
        /\ currentHeadPose = "neutral" => r = None

\* The accessor returns a duck command.
C2_Witness ==
    /\ getCurrentInput # None
    /\ getCurrentInput[1].down

\* C3: getCurrentInput returns a command only when the tracker is
\* initialized (init() has completed) and calibrated; before init()
\* completes, after it failed, while calibrating and once stopped (the
\* flags cleared, the camera stopped) it returns null.
C3_NoCommandOutsideActive ==
    /\ getCurrentInput # None => (isInitialized /\ isCalibrated /\ pc = "ready")
    /\ pc # "ready" => getCurrentInput = None
    /\ ~isCalibrated => getCurrentInput = None
    /\ ~isInitialized => getCurrentInput = None
    /\ camera = "stopped" => getCurrentInput = None

\* A stopped tracker whose last stabilized command was not neutral.
C3_Witness ==
    /\ pc = "ready"
    /\ ~isInitialized
    /\ currentHeadPose # "neutral"
    /\ getCurrentInput = None

\* A window of 3 with exactly one non-neutral command and two 'neutral'.
OutlierWindow(h) ==
    /\ Len(h) = 3
    /\ Occurrences(h, "neutral") = 2

\* getSmoothedPose is 'neutral' on every such window.
NoiseRejected ==
    \A h \in Windows(3, 3) : OutlierWindow(h) => getSmoothedPose(h) = "neutral"

\* C4: for every window of 3 raw commands holding exactly one non-neutral
\* command and two 'neutral', wherever the outlier stands, the stabilized
\* command is 'neutral'.
C4_NoiseRejection ==
    /\ NoiseRejected
    /\ OutlierWindow(poseHistory) => currentHeadPose = "neutral"

\* The outlier is the most recent frame of the tracker's window.
C4_Witness ==
    /\ OutlierWindow(poseHistory)
    /\ poseHistory[3] = "up"
    /\ currentHeadPose = "neutral"

\* The two most recent raw commands of window h are the same non-neutral
\* command.
SustainedWindow(h) ==
    /\ Len(h) >= 2
    /\ h[Len(h)] = h[Len(h) - 1]
    /\ h[Len(h)] # "neutral"

\* getSmoothedPose is that command on every such window.
SustainedWins ==
    \A h \in Windows(2, maxHistoryLength) :
        SustainedWindow(h) => getSmoothedPose(h) = h[Len(h)]

\* C5: whenever the two most recent raw commands are the same non-neutral
\* command c, the stabilized command is c, whatever the older content of
\* the window.
C5_Responsiveness ==
    /\ SustainedWins
    /\ SustainedWindow(poseHistory) => currentHeadPose = poseHistory[Len(poseHistory)]

\* Two 'up' frames follow a 'down' frame.
C5_Witness ==
    /\ poseHistory = << "down", "up", "up" >>
    /\ currentHeadPose = "up"

\* The reference vote: an entry weighs 1, the most recent 2.
RefWeight(h, p) ==
    Occurrences(h, p) + (IF h[Len(h)] = p THEN 1 ELSE 0)

RefFirst(h, p) == CHOOSE i \in 1..Len(h) : h[i] = p /\ \A j \in 1..(i - 1) : h[j] # p

\* The label of highest weight, the one seen first among equals.
RefWinner(h) ==
    CHOOSE p \in Range(h) :
        \A q \in Range(h) \ {p} :
            \/ RefWeight(h, p) > RefWeight(h, q)
            \/ /\ RefWeight(h, p) = RefWeight(h, q)
               /\ RefFirst(h, p) < RefFirst(h, q)

RefVote(h) ==
    IF h = << >> THEN "neutral"
    ELSE IF RefWinner(h) # "neutral" /\ RefWeight(h, RefWinner(h)) >= 2
         THEN RefWinner(h)
         ELSE "neutral"

\* getSmoothedPose is the reference vote on every window of length 0 to 3.
VoteIsReference ==
    \A h \in Windows(0, maxHistoryLength) : getSmoothedPose(h) = RefVote(h)

\* C6: for every window of length 0 to 3, getSmoothedPose equals the
\* reference vote (weights 1 and 2, highest weight wins, ties to the label
\* seen first, non-neutral winners need weight 2), and the tracker's
\* stabilized command is the vote of its window.
C6_WeightedVote ==
    /\ VoteIsReference
    /\ currentHeadPose = RefVote(poseHistory)

\* A tie of weight 2 against 2, decided for the label seen first.
C6_Witness ==
    /\ poseHistory = << "up", "up", "neutral" >>
    /\ currentHeadPose = "up"

\* The mean pitch of a window of samples.
MeanPitch(samples) == Div(SumPitch(samples), Num(Length(samples)))

\* C7: finishCalibration with more than 10 samples of mean pitch p sets
\* neutralPosition.pitch = p, upThreshold = p - 5, downThreshold = p + 5
\* and isCalibrated.  (In SpecFinish isCalibrated holds exactly after
\* finishCalibration has run.)
C7_AdaptiveThresholds ==
    (isCalibrated /\ Length(calibrationSamples) > 10) =>
        LET p == MeanPitch(calibrationSamples)
        IN  /\ neutralPosition = Some([pitch |-> p])
            /\ upThreshold = Sub(p, Num(5))
            /\ downThreshold = Add(p, Num(5))

\* finishCalibration has run on 11 samples whose mean is not a whole number.
C7_Witness ==
    /\ isCalibrated
    /\ Length(calibrationSamples) = 11
    /\ neutralPosition = Some([pitch |-> Fin(12, 11)])
    /\ upThreshold = Fin(-43, 11)

\* C8: finishCalibration with 10 or fewer samples, whatever their pitches,
\* yields the default calibration: neutral pitch 0, thresholds -5 and +5,
\* isCalibrated.
C8_DefaultCalibration ==
    (isCalibrated /\ Length(calibrationSamples) <= 10) =>
        /\ neutralPosition = Some([pitch |-> Num(0)])
        /\ upThreshold = Num(-5)
        /\ downThreshold = Num(5)

\* finishCalibration has run on exactly 10 samples of non-zero mean.
C8_Witness ==
    /\ isCalibrated
    /\ Length(calibrationSamples) = 10
    /\ MeanPitch(calibrationSamples) # Num(0)
    /\ upThreshold = Num(-5)

\* C9: in every reachable state downThreshold - upThreshold = 10, and when
\* a neutral pitch is defined upThreshold = neutralPitch - 5,
\* downThreshold = neutralPitch + 5 and
\* upThreshold < neutralPitch < downThreshold.
C9_ThresholdMargin ==
    /\ Sub(downThreshold, upThreshold) = Num(10)
    /\ neutralPosition # None =>
          LET neutralPitch == neutralPosition[1].pitch
          IN  /\ upThreshold = Sub(neutralPitch, Num(5))
              /\ downThreshold = Add(neutralPitch, Num(5))
              /\ Lt(upThreshold, neutralPitch)
              /\ Lt(neutralPitch, downThreshold)

\* C10: recalibrate() empties the command history, resets currentHeadPose
\* to 'neutral' and makes getCurrentInput return null; getCurrentInput stays
\* null while isCalibrated is false; and until the new calibration has
\* completed the history stays empty and currentHeadPose 'neutral', so that
\* commands after it come from frames classified after it.
C10_RecalibrateClears ==
    /\ [][recalibrate =>
            /\ getCurrentInput' = None
            /\ poseHistory' = << >>
            /\ currentHeadPose' = "neutral"]_vars
    /\ [](~isCalibrated => getCurrentInput = None)
    /\ [][(~isCalibrated /\ poseHistory = << >> /\ currentHeadPose = "neutral")
            => (poseHistory' = << >> /\ currentHeadPose' = "neutral")]_vars

\* The tracker is collecting samples again after recalibrate() was called
\* on a calibrated, initialized tracker.
C10_Witness ==
    /\ isInitialized
    /\ ~isCalibrated
    /\ neutralPosition # None
    /\ Length(calibrationSamples) > 0
    /\ getCurrentInput = None

\* C11: a frame without a face changes nothing. A processResults call whose
\* results hold no face leaves poseHistory, currentHeadPose, the calibration
\* window, isCalibrated, the neutral position and both thresholds as they
\* were, while calibrating and while active, so the last command persists.
C11_NoFaceNoChange ==
    [][ processResults(None) =>
            /\ UNCHANGED << poseHistory, currentHeadPose, calibrationSamples,
                            isCalibrated, neutralPosition, upThreshold,
                            downThreshold >>
            /\ getCurrentInput' = getCurrentInput ]_vars

\* A calibrated, running tracker holding a non-neutral command: every
\* no-face frame delivered here must leave the command in place.
C11_Witness ==
    /\ camera = "running"
    /\ isInitialized /\ isCalibrated
    /\ getCurrentInput # None
    /\ getCurrentInput[1].up

\* C12: the calibration window never holds more than calibrationFrames
\* samples; a sample is appended only while isCalibrated is false and the
\* window is below capacity; isCalibrated goes from false to true only on
\* the step whose append fills the window to exactly calibrationFrames, and
\* the baseline is then the mean of all the samples in the window.
C12_WindowSealsAtCapacity ==
    [][ /\ Length(calibrationSamples') <= calibrationFrames
        /\ Length(calibrationSamples') > Length(calibrationSamples) =>
               /\ ~isCalibrated
               /\ Length(calibrationSamples) < calibrationFrames
               /\ Length(calibrationSamples') = Length(calibrationSamples) + 1
        /\ (~isCalibrated /\ isCalibrated') =>
               /\ Length(calibrationSamples) = calibrationFrames - 1
               /\ Length(calibrationSamples') = calibrationFrames
               /\ neutralPosition' =
                      Some([pitch |-> MeanPitch(calibrationSamples')]) ]_vars

\* A calibration that has just completed on a full window.
C12_Witness ==
    /\ isCalibrated
    /\ Length(calibrationSamples) = calibrationFrames
    /\ neutralPosition = Some([pitch |-> MeanPitch(calibrationSamples)])

\* The history after a first-in first-out push of command c at capacity
\* maxHistoryLength.
FifoPush(history, c) ==
    IF Len(history) < maxHistoryLength
    THEN history \o << c >>
    ELSE SubSeq(history, 2, Len(history)) \o << c >>

\* C13: poseHistory is a FIFO of capacity maxHistoryLength. It never holds
\* more than maxHistoryLength commands; a face-bearing frame processed while
\* calibrated appends exactly one raw command at the end and, at capacity,
\* removes exactly the oldest, keeping the order of the rest; a frame
\* processed while not calibrated changes neither poseHistory nor
\* currentHeadPose.
C13_HistoryFifo ==
    [][ /\ Len(poseHistory') <= maxHistoryLength
        /\ \/ IF isCalibrated
              THEN \E c \in Poses : poseHistory' = FifoPush(poseHistory, c)
              ELSE UNCHANGED << poseHistory, currentHeadPose >>
           \/ ~ \E landmarks \in FaceFrames :
                    processResults(Some(landmarks)) ]_vars

\* A full history whose entries differ, after a push at capacity.
C13_Witness ==
    /\ isCalibrated
    /\ poseHistory = << "up", "neutral", "down" >>

\* C14: once isCalibrated is true, only recalibrate() or stopHeadTracking()
\* changes the calibration: no frame callback and no delayed
\* startCalibration changes calibrationSamples, neutralPosition, upThreshold
\* or downThreshold.
C14_CalibrationFrozen ==
    [][ (isCalibrated /\ ~recalibrate /\ ~stopHeadTracking) =>
            UNCHANGED << calibrationSamples, neutralPosition, upThreshold,
                         downThreshold >> ]_vars

\* C15: in every calibration cycle no sample is accepted into the window,
\* and calibration does not complete, before the startCalibration() call of
\* that cycle has run.
C15_SamplingAfterStart ==
    [][ /\ Length(calibrationSamples') > Length(calibrationSamples) =>
               cycle = "started"
        /\ (~isCalibrated /\ isCalibrated') => cycle = "started" ]_vars

\* The value of a property that is not held.
Undefined == [kind |-> "undefined", num |-> 0, den |-> 1]

\* C16: recalibrate() discards the previous calibration: after the call the
\* neutral position, upThreshold and downThreshold of the calibration that
\* was complete are no longer held.
C16_RecalibrateDiscards ==
    [][ (isCalibrated /\ recalibrate) =>
            /\ neutralPosition' = None
            /\ upThreshold' = Undefined
            /\ downThreshold' = Undefined ]_vars

\* C17: stop is terminal. Once stopHeadTracking() has stopped the camera and
\* cleared isInitialized, no later step (init() continuing, a timer, a late
\* frame, a calibrate click) sets isInitialized again, and getCurrentInput
\* stays null.
C17_StopTerminal ==
    [][ (camera = "stopped" /\ ~isInitialized) =>
            (~isInitialized' /\ getCurrentInput' = None) ]_vars

\* C18: a calibration cycle in which minCalibrationSamples face-bearing
\* frames or fewer have been delivered still ends with the tracker
\* calibrated, unless the tracker is stopped, a new cycle is requested or
\* more frames arrive.
C18_FallbackCalibrates ==
    ( /\ isInitialized /\ ~isCalibrated
      /\ cycle = "started" /\ pendingTimers = 0
      /\ Length(calibrationSamples) <= minCalibrationSamples )
    ~> ( \/ isCalibrated
         \/ ~isInitialized
         \/ pendingTimers > 0
         \/ Length(calibrationSamples) > minCalibrationSamples )

\* C19: a frame of zero face height is skipped: the calibration window holds
\* only samples of finite pitch, and both thresholds are finite.
C19_DegenerateSkipped ==
    /\ \A sample \in BagToSet(calibrationSamples) : IsFinite(sample.pitch)
    /\ IsFinite(upThreshold)
    /\ IsFinite(downThreshold)

\* C20: once camera access or MediaPipe start-up has failed inside init(),
\* the failure is permanent, isInitialized is false and getCurrentInput
\* returns null, whatever calibrate clicks and timers follow.
C20_FailureIsNull ==
    [][ pc' \in {"failedCamera", "failedMediaPipe"} =>
            /\ ~isInitialized'
            /\ getCurrentInput' = None
            /\ pc \in {"failedCamera", "failedMediaPipe"} =>
                   (pc' = pc /\ ~isInitialized) ]_vars

\* A failed start-up followed by calibrate clicks whose timers are pending.
C20_Witness ==
    /\ pc = "failedCamera"
    /\ pendingTimers = MaxTimers
    /\ getCurrentInput = None

\* C21: a non-neutral stabilized command c has at least minConfidenceFrames
\* (2) entries equal to c in the history window: one raw non-neutral frame
\* does not trigger an action.
C21_TwoFramesRequired ==
    currentHeadPose # "neutral" =>
        Occurrences(poseHistory, currentHeadPose) >= minConfidenceFrames

\* C22: with no key held, a window filled by frames of one pitch below
\* upThreshold (head tilted up) makes the running gazelle jump on the next
\* update, and one filled by frames of one pitch above downThreshold (head
\* tilted down) makes it duck.
C22_ControlDirection ==
    [][ ( /\ gameState = "playing"
          /\ getInput(keys) = None
          /\ isInitialized /\ isCalibrated
          /\ gazelle.state = "running" /\ gazelle.onGround
          /\ update ) =>
            \A landmarks \in FaceFrames :
                LET headData == calculateHeadPose(landmarks)
                    raw      == determineHeadPose(headData)
                IN  poseHistory = << raw, raw, raw >> =>
                        /\ Lt(headData.pitch, upThreshold) =>
                               gazelle'.state = "jumping"
                        /\ Gt(headData.pitch, downThreshold) =>
                               gazelle'.state = "ducking" ]_vars

\* The samples and the pitches of the frames of the model.
FrameSamples == { calculateHeadPose(l) : l \in FaceFrames }

FramePitches == { headData.pitch : headData \in FrameSamples }

\* The label of a pitch between two thresholds.
PitchLabel(pitch, up, down) ==
    IF Lt(pitch, up) THEN "down"
    ELSE IF Gt(pitch, down) THEN "up"
    ELSE "neutral"

\* C23: the game loop's update, which reads getCurrentInput, writes none of
\* isInitialized, isCalibrated, calibrationSamples, neutralPosition, the
\* thresholds, poseHistory and currentHeadPose; and the label
\* determineHeadPose gives a sample of a calibrated tracker is a function of
\* its pitch and the two thresholds, whatever the sample's other fields.
C23_ReadsDoNotWrite ==
    /\ [][ \/ UNCHANGED << isInitialized, isCalibrated, calibrationSamples,
                            neutralPosition, upThreshold, downThreshold,
                            poseHistory, currentHeadPose >>
           \/ ~update ]_vars
    /\ [] ( isCalibrated =>
              \A headData \in FrameSamples, pitch \in FramePitches :
                  determineHeadPose([headData EXCEPT !.pitch = pitch]) =
                      PitchLabel(pitch, upThreshold, downThreshold) )

\* An update has read a head command: the gazelle is in a jump with no key
\* held.
C23_Witness ==
    /\ gameState = "playing"
    /\ keys = {}
    /\ getCurrentInput # None
    /\ gazelle.state = "jumping"
    /\ poseHistory = << "up", "up", "up" >>

\* The input on a tick, from the keys held and the two trackers' commands.
KeyboardInput ==
    [up    |-> keys \cap {"Space", "ArrowUp", "KeyW"} # {},
     down  |-> keys \cap {"ArrowDown", "KeyS"} # {},
     left  |-> keys \cap {"ArrowLeft", "KeyA"} # {},
     right |-> keys \cap {"ArrowRight", "KeyD"} # {}]

MappedKeyHeld ==
    KeyboardInput.up \/ KeyboardInput.down \/ KeyboardInput.left \/
    KeyboardInput.right

SelectedInput ==
    IF MappedKeyHeld THEN Some(KeyboardInput)
    ELSE IF pc # "idle" /\ getCurrentInput # None THEN getCurrentInput
    ELSE getCurrentGaze

\* C24: on every tick the input handed to Gazelle.update is the keyboard's
\* alone when a mapped key is held, the head tracker's command when none is
\* held, and the legacy tracker's when both others are null.
C24_KeyboardPriority ==
    /\ [] (GameInput = SelectedInput)
    /\ [][ \/ gameState # "playing"
           \/ \E nearbyLargeRock \in BOOLEAN :
                  gazelle' = GazelleUpdate(gazelle, SelectedInput,
                                           nearbyLargeRock)
           \/ ~update ]_vars

\* The left key is held while the head tracker commands a jump.
C24_Witness ==
    /\ gameState = "playing"
    /\ keys = {"ArrowLeft"}
    /\ getCurrentInput # None
    /\ getCurrentInput[1].up
    /\ gazelle.state = "running"

\* C25: a tracker that is calibrating before a running camera becomes
\* calibrated, unless recalibrate() keeps being called or the camera is
\* stopped; isCalibrated becomes true only on a face-bearing frame that
\* fills the window, where finishCalibration runs, and becomes false only
\* by recalibrate() or stopHeadTracking().
C25_CalibrationCompletes ==
    /\ (<>[][~recalibrate]_vars) =>
           ( (isInitialized /\ ~isCalibrated /\ camera = "running")
               ~> (isCalibrated \/ camera # "running") )
    /\ [][ /\ (~isCalibrated /\ isCalibrated') =>
                  /\ Length(calibrationSamples') >
                         Length(calibrationSamples)
                  /\ Length(calibrationSamples') = calibrationFrames
                  /\ isCalibrated' =
                         finishCalibration(calibrationSamples').isCalibrated
           /\ (isCalibrated /\ ~isCalibrated') =>
                  (recalibrate \/ stopHeadTracking) ]_vars

\* A calibration whose cycle was started by its own startCalibration() has
\* completed.
C25_Witness ==
    /\ isInitialized /\ isCalibrated
    /\ camera = "running"
    /\ cycle = "started"
    /\ pendingTimers = 0
    /\ poseHistory = << >>

\* C26 as stated: the stabilized command is 'neutral' whenever the most
\* recent raw command is 'neutral'.
C26_ReleaseOnNeutralFrame ==
    (poseHistory # << >> /\ poseHistory[Len(poseHistory)] = "neutral") =>
        currentHeadPose = "neutral"

\* The most recent command of h is 'neutral' and the two before it are one
\* non-neutral command.
HeldWindow(h) ==
    /\ Len(h) = 3
    /\ h[3] = "neutral"
    /\ h[1] = h[2]
    /\ h[1] # "neutral"

\* On every window ending in 'neutral', getSmoothedPose is 'neutral' unless
\* the window is a held one, where it is the held command.
ReleaseRule ==
    \A h \in Windows(1, maxHistoryLength) :
        h[Len(h)] = "neutral" =>
            getSmoothedPose(h) = (IF HeldWindow(h) THEN h[1] ELSE "neutral")

\* C26: whenever the two most recent raw commands are 'neutral' the
\* stabilized command is 'neutral'; when only the most recent is, the
\* stabilized command is 'neutral' unless the two commands before it are the
\* same non-neutral command, which is then held for that frame.
C26_Release ==
    /\ ReleaseRule
    /\ (poseHistory # << >> /\ poseHistory[Len(poseHistory)] = "neutral") =>
           currentHeadPose =
               (IF HeldWindow(poseHistory) THEN poseHistory[1] ELSE "neutral")

\* The head returned to neutral after two 'down' frames: 'down' is held.
C26_Witness ==
    /\ poseHistory = << "down", "down", "neutral" >>
    /\ currentHeadPose = "down"

\* sortedPoses[0] for history h.
TopPose(h) == SortEntries(CountPoses(h, Len(h)))[1]

\* The window after the raw commands of w have been pushed onto history h.
RECURSIVE After(_, _)
After(h, w) ==
    IF w = << >> THEN h
    ELSE After(PushPose(h, w[1]), Tail(w))

\* C27: from the tracker's history some raw commands lead to a non-empty
\* window whose winner is non-neutral and has weight below
\* minConfidenceFrames, which getSmoothedPose turns into 'neutral'.
C27_ConfidenceSuppresses ==
    \E w \in Windows(1, maxHistoryLength) :
        LET h == After(poseHistory, w)
        IN  /\ TopPose(h)[1] # "neutral"
            /\ TopPose(h)[2] < minConfidenceFrames
            /\ getSmoothedPose(h) = "neutral"

\* C28: a non-neutral currentHeadPose occurs in the current poseHistory.
C28_LabelInWindow ==
    currentHeadPose # "neutral" => currentHeadPose \in Range(poseHistory)

\* A command carried by the most recent entry alone.
C28_Witness ==
    /\ poseHistory = << "neutral", "up" >>
    /\ currentHeadPose = "up"

\* getSmoothedPose and getSmoothedGaze agree on every window of length 0 to
\* 3, 'neutral' read as 'center'.
StabilizersAgree ==
    \A h \in Windows(0, maxHistoryLength) :
        AsGaze(getSmoothedPose(h)) =
            getSmoothedGaze([i \in 1..Len(h) |-> AsGaze(h[i])])

\* C29: the two stabilizers return the same label on every window of length
\* 0 to 3, and fed the same raw commands they hold the same window and the
\* same smoothed output after every frame.
C29_StabilizersEquivalent ==
    /\ StabilizersAgree
    /\ gazeHistory = [i \in 1..Len(poseHistory) |-> AsGaze(poseHistory[i])]
    /\ currentGaze = AsGaze(currentHeadPose)

\* Both hold a tie of weight 2 against 2 after three frames.
C29_Witness ==
    /\ framesFed >= 3
    /\ poseHistory = << "down", "down", "neutral" >>
    /\ gazeHistory = << "down", "down", "center" >>
    /\ currentGaze = "down"

Landed ==
    /\ gazelle.onGround
    /\ gazelle.y = groundY
    /\ gazelle.velocityY = 0
    /\ gazelle.state = "running"

\* C31: every jump lands. Whatever the inputs, an update of a gazelle in the
\* air adds the gravity to velocityY and the new velocityY to y (the jump is
\* neither extended nor restarted) or lands it; a landing leaves y = groundY,
\* onGround true, velocityY 0 and the state 'running'; and a gazelle in the
\* air is on the ground again after finitely many updates.
C31_EveryJumpLands ==
    /\ [][ ~gazelle.onGround =>
               \/ /\ ~gazelle'.onGround
                  /\ gazelle'.state = "jumping"
                  /\ gazelle'.velocityY = gazelle.velocityY + gravity
                  /\ gazelle'.y = gazelle.y + gazelle'.velocityY
                  /\ gazelle'.y < groundY
               \/ Landed' ]_vars
    /\ (~gazelle.onGround) ~> Landed

\* The gazelle has just landed from a big jump: it is on the ground, still
\* ahead of its base position, 62 updates after leaving it.
C31_Witness ==
    /\ Landed
    /\ gazelle.x > Px(100)
    /\ gazelle.x < Px(100) + (Px(1) \div 10)

\* The difficulty rule on every speed from 2 to 6, every interval from 80 to
\* 140 and timers on both sides of a multiple of 400: the speed stays at or
\* below 6 and does not fall, the interval stays in 80..140 and does not
\* rise, and neither changes off a multiple of 400.
ProbeTimers ==
    { difficultyPeriod - 1, difficultyPeriod, difficultyPeriod + 1,
      2 * difficultyPeriod }

DifficultyRuleBounded ==
    \A speed \in startSpeed..maxSpeed,
       interval \in minSpawnInterval..initialSpawnInterval,
       timer \in ProbeTimers :
        LET raised == raiseDifficulty(speed, interval, timer)
        IN  /\ raised.gameSpeed <= maxSpeed
            /\ raised.gameSpeed >= speed
            /\ raised.obstacleSpawnInterval >= minSpawnInterval
            /\ raised.obstacleSpawnInterval <= interval
            /\ timer % difficultyPeriod # 0 =>
                   /\ raised.gameSpeed = speed
                   /\ raised.obstacleSpawnInterval = interval

\* C32: gameSpeed is at most 6 and obstacleSpawnInterval is between 80 and
\* 140 in every state; within one game gameSpeed does not decrease,
\* obstacleSpawnInterval does not increase and score does not decrease, and
\* the first two change only on a tick that brings difficultyTimer to a
\* multiple of 400.
C32_DifficultyBounds ==
    /\ [] ( /\ DifficultyRuleBounded
            /\ gameSpeed <= maxSpeed
            /\ obstacleSpawnInterval >= minSpawnInterval
            /\ obstacleSpawnInterval <= initialSpawnInterval )
    /\ [][ game' = game =>
               /\ gameSpeed' >= gameSpeed
               /\ obstacleSpawnInterval' <= obstacleSpawnInterval
               /\ score' >= score
               /\ ( \/ gameSpeed' # gameSpeed
                    \/ obstacleSpawnInterval' # obstacleSpawnInterval ) =>
                      /\ difficultyTimer' = difficultyTimer + 1
                      /\ difficultyTimer' % difficultyPeriod = 0 ]_vars

\* The tick that brings difficultyTimer to 400 has raised the speed to 2.2
\* and lowered the interval to 138.
C32_Witness ==
    /\ gameState = "playing"
    /\ difficultyTimer = difficultyPeriod
    /\ gameSpeed = startSpeed + speedStep
    /\ obstacleSpawnInterval = initialSpawnInterval - spawnIntervalStep
    /\ score = difficultyPeriod

\* C33: highScore never decreases; while the game is over, highScore is at
\* least the score shown and is the value in localStorage; and the score of
\* a game that ends, by a collision or by a click on Start while playing,
\* is counted in highScore.
C33_HighScore ==
    /\ [] ( gameState = "gameOver" =>
               /\ highScore >= score
               /\ storedHighScore = Some(highScore) )
    /\ [][ /\ highScore' >= highScore
           /\ game' # game => highScore' >= score ]_vars

\* C34: the game over state is left for the menu only by the timer that the
\* gameOver() call of the current game set, and a game-over timer that
\* fires while playing or in the menu leaves the state alone.
C34_TimerOwnGame ==
    [][ /\ (gameState = "gameOver" /\ gameState' = "menu") =>
               /\ game \in gameOverTimers
               /\ gameOverTimers' = gameOverTimers \ {game}
        /\ (gameState # "gameOver" /\ gameOverTimers' # gameOverTimers
               /\ gameOverTimers' \subseteq gameOverTimers) =>
               gameState' = gameState ]_vars

\* C35: every obstacle in the list comes from a spawnObstacle() call, or
\* its delayed rock, made in the current game.
C35_ObstaclesOfCurrentGame ==
    \A i \in 1..Len(obstacles) : obstacles[i].spawnedIn = game

\* C36: a startGame() leaves score 0, gameSpeed 2, no obstacle, both timers
\* 0 and obstacleSpawnInterval at its initial 140, and highScore as it was.
C36_StartResets ==
    [][ game' # game =>
           /\ gameState' = "playing"
           /\ score' = 0
           /\ gameSpeed' = startSpeed
           /\ obstacles' = << >>
           /\ obstacleSpawnTimer' = 0
           /\ difficultyTimer' = 0
           /\ obstacleSpawnInterval' = initialSpawnInterval
           /\ highScore' = highScore ]_vars

\* Two rectangles have a common interior: on each axis the later start is
\* before the earlier end.
Larger(a, b) == IF a > b THEN a ELSE b

Smaller(a, b) == IF a < b THEN a ELSE b

RectsOverlap(r1, r2) ==
    /\ Larger(r1.x, r2.x) < Smaller(r1.x + r1.width, r2.x + r2.width)
    /\ Larger(r1.y, r2.y) < Smaller(r1.y + r1.height, r2.y + r2.height)

\* Small rectangles, among them pairs that share an edge or a corner.
ProbeRects == [x : 0..3, y : 0..3, width : 1..2, height : 1..2]

IntersectIsOverlap ==
    \A r1 \in ProbeRects, r2 \in ProbeRects :
        rectIntersect(r1, r2) <=> RectsOverlap(r1, r2)

\* C37: the menu is left for 'playing' only by startGame(); 'playing' is
\* left for 'gameOver' only on a tick after which the gazelle's rectangle
\* and an obstacle's have a common interior (rectIntersect is false for
\* rectangles that only touch); and update() outside 'playing' changes
\* neither the score, the speed, the obstacles, the gazelle nor the timers.
C37_StateMachine ==
    /\ [] IntersectIsOverlap
    /\ [][ /\ (gameState = "menu" /\ gameState' = "playing") => startGame
           /\ (gameState = "playing" /\ gameState' = "gameOver") =>
                  /\ difficultyTimer' = difficultyTimer + 1
                  /\ \E i \in 1..Len(obstacles') :
                         RectsOverlap(GazelleRect(gazelle'),
                                      ObstacleRect(obstacles'[i]))
           /\ \/ gameState = "playing"
              \/ UNCHANGED << score, gameSpeed, obstacles, gazelle,
                              obstacleSpawnTimer, obstacleSpawnInterval,
                              difficultyTimer, highScore >>
              \/ ~update ]_vars

\* The game is over on the tick that brought the first rock's rectangle
\* over the running gazelle's.
C37_Witness ==
    /\ gameState = "gameOver"
    /\ game = 1
    /\ Len(obstacles) > 0
    /\ obstacles[1].type = "rock"
    /\ rectIntersect(GazelleRect(gazelle), ObstacleRect(obstacles[1]))
    /\ ~rectIntersect(GazelleRect(gazelle),
                      ObstacleRect([obstacles[1] EXCEPT
                                        !.x = obstacles[1].x + Px(2)]))

====
